---- MODULE Spec2Model ----
(***************************************************************************)
(* A model of stlrcore: the frame timing generator of stlr/vn.py, the      *)
(* segment and fragment extractor, the exports and the model cache of      *)
(* stlr/transcribe.py, and the transcript reconciler of stlr/hoshi.py.     *)
(*                                                                         *)
(* Times are integers counting milliseconds.  A time that the code         *)
(* computes by a division (the per-word frame length) is kept exact as a   *)
(* numerator over a denominator.  Where the IEEE-754 double evaluation of  *)
(* the code departs from exact arithmetic on the values the model draws,   *)
(* the departure is tabulated (FrangeDrift, TieRoundsUp).                  *)
(***************************************************************************)
EXTENDS Integers, Sequences, FiniteSets, TLC

VARIABLES
    transcription,  \* ATLImageGenerator.transcription: the words, in order
    images,         \* ATLImageGenerator._images: index of the cycle's next image
    atl,            \* ATLImageGenerator._atl
    atl_box,        \* AstralApp.atl_box.text: the script the user sees and edits
    last_call,      \* the most recent generator call: op, verbose, arg, ret
    hung,           \* a call entered a loop that never ends
    tolerance,      \* the tolerance of the most recent get_segments call
    segments,       \* list(transcription.get_segments(tolerance)) of that call
    whisper_result, \* reconcile's whisper_result: its text and its segments
    vosk_result,    \* reconcile's vosk_result: the timed words
    mode,           \* reconcile's mode
    pc,             \* where the reconcile call is
    rows_left,      \* HoshiAssistant: the rows _iter_rows has not yielded yet
    row,            \* HoshiAssistant: the texts of the row being reconciled
    group,          \* _reconcile_one: the index of the next pair of sub-groups
    true_transcription, \* HoshiAssistant.reconcile: words the iterator has yielded
    timings,        \* HoshiAssistant.reconcile: timings the iterator has yielded
    words,          \* HoshiAssistant.update: the words reconcile has yielded
    _result,        \* the WhisperResult made of whisper_result, or NoResult
    file,           \* the file the transcription was exported to: its mode and its data
    loaded,         \* the Transcription from_json made of the file, or NotLoaded
    fragment,       \* the most recent get_fragment call: its tokens and its outcome
    models,         \* ModelCache.models: the model stored under each key
    got             \* the most recent ModelCache.get call: its arguments and its outcome

genvars == <<images, atl, atl_box, last_call, hung>>

segvars == <<tolerance, segments>>

recvars == <<whisper_result, vosk_result, mode, pc, rows_left, row, group,
             true_transcription, timings, words, _result>>

\* the state of the calls made on the Transcription itself
\* the model cache
cachevars == <<models, got>>

trvars == <<file, loaded, fragment, cachevars>>

vars == <<transcription, genvars, segvars, recvars, trvars>>

\* what a call on the generator leaves alone
nongen == <<segvars, recvars, trvars>>

-----------------------------------------------------------------------------
(* Bounds of the model *)

MaxWords == 2
MaxLines == 3

GenTimes == {0, 126, 400, 971}
GenTexts == {"a"}

-----------------------------------------------------------------------------
(* stlr/transcribe.py: WordTiming and Transcription *)

WordTiming(word, start, end) == [word |-> word, start |-> start, end |-> end]

WordDuration(w) == w.end - w.start

TranscriptionStart(T) == IF Len(T) = 0 THEN 0 ELSE T[1].start

TranscriptionDuration(T) == IF Len(T) = 0 THEN 0 ELSE T[Len(T)].end

Pairwise(s) == [i \in 1..(IF Len(s) = 0 THEN 0 ELSE Len(s) - 1) |-> <<s[i], s[i + 1]>>]

Waits(T) ==
    IF Len(T) < 2 THEN <<>>
    ELSE [i \in 1..Len(Pairwise(T)) |-> Pairwise(T)[i][2].start - Pairwise(T)[i][1].end] \o <<0>>

-----------------------------------------------------------------------------
(* Python number formatting *)

\* Python's round() and the rounding of the format specifiers: round to the
\* nearest integer, a tie to the even one.
RoundHalfEven(num, den) ==
    LET q == num \div den
        r == num % den
    IN  IF 2 * r < den THEN q
        ELSE IF 2 * r > den THEN q + 1
        ELSE IF q % 2 = 0 THEN q ELSE q + 1

\* The values x (in ms) ending in 5 whose double lies above the decimal tie,
\* so that f"{x/1000:.2f}" rounds up; a value outside the set and not exactly
\* representable lies below and rounds down.
TieRoundsUp ==
    {5, 25, 35, 55, 65, 85, 95, 115, 135, 165, 195, 225, 255, 265, 275, 315,
     325, 335, 385, 395, 405, 445, 455, 465, 505, 515, 525, 535, 545, 555, 635,
     645, 655, 665, 675, 685, 755, 765, 775, 785, 795, 805, 885, 895, 905, 915,
     925, 935}

\* The values ending in 5 that a double holds exactly: the tie goes to the even digit.
ExactTie(ms) == ms % 125 = 0

\* f"{x:.3f}" of the time num/den ms: the time printed with three decimals, in ms
Fmt3(num, den) == RoundHalfEven(num, den)

\* f"{x:.2f}" of the time ms: the time printed with two decimals, as the ms it reads back as
Fmt2(ms) ==
    IF ms % 10 # 5 \/ ExactTie(ms) THEN 10 * RoundHalfEven(ms, 10)
    ELSE IF ms \in TieRoundsUp THEN ms + 5
    ELSE ms - 5

-----------------------------------------------------------------------------
(* The lines of a script.  A line is its printed text, field by field:     *)
(* an asset line is a quoted image path, a delay line is an indent, a      *)
(* decimal number printed with dec decimals and an annotation, any other   *)
(* line is opaque.                                                         *)

NoAnn == [mode |-> "none", lo |-> 0, hi |-> 0, items |-> <<>>]

AssetLine(image) ==
    [kind |-> "asset", txt |-> image, indent |-> 4, val |-> 0, dec |-> 0, ann |-> NoAnn]

OpenMouth == AssetLine("open")

ClosedMouth == AssetLine("closed")

DelayLine(indent, val, dec, ann) ==
    [kind |-> "delay", txt |-> "", indent |-> indent, val |-> val, dec |-> dec, ann |-> ann]

\* a line with no leading number; val and dec carry the number its text shows
OtherLine(txt, val, dec) ==
    [kind |-> "other", txt |-> txt, indent |-> 4, val |-> val, dec |-> dec, ann |-> NoAnn]

\* the comment a word's block opens and closes with: the word, and its duration when opening
BlockLine(txt, word, val) ==
    [kind |-> "other", txt |-> txt, indent |-> 4, val |-> val, dec |-> 2,
     ann |-> [mode |-> "word", lo |-> 0, hi |-> 0, items |-> <<<<word, "", 0>>>>]]

\* a read_leading_float that finds a number on an image line too
HasLeadingFloatOrImage(line) == line.kind \in {"delay", "asset"}

\* stlr/utils.py read_leading_float: the leading decimal of a line, or None
HasLeadingFloat(line) == line.kind = "delay"

read_leading_float(line) == line.val

\* stlr/utils.py get_space_prefix
get_space_prefix(line) == line.indent

\* repr() of a float holding ms milliseconds: the shortest decimals, one at least
ReprDecimals(ms) ==
    IF ms % 100 = 0 THEN 1 ELSE IF ms % 10 = 0 THEN 2 ELSE 3

-----------------------------------------------------------------------------
(* ATLImageGenerator.annotate *)

RECURSIVE SortByTime(_)
\* sorted(..., key=time): a stable sort of <<word, bound, time>> items by time
SortByTime(s) ==
    IF Len(s) <= 1 THEN s
    ELSE LET head == SortByTime(SubSeq(s, 1, Len(s) - 1))
             x == s[Len(s)]
             k == Cardinality({i \in 1..Len(head) : head[i][3] <= x[3]})
         IN  SubSeq(head, 1, k) \o <<x>> \o SubSeq(head, k + 1, Len(head))

RECURSIVE Filter(_, _)
\* [t for t in T if ...]: the elements of T at the indexes in keep, in the order of T
Filter(T, keep) ==
    IF Len(T) = 0 THEN <<>>
    ELSE Filter(SubSeq(T, 1, Len(T) - 1), keep)
         \o (IF Len(T) \in keep THEN <<T[Len(T)]>> ELSE <<>>)

\* annotate with the test of the ends, start < t <= end, applied to the starts too
AnnotateStartsLikeEnds(T, lo, hi, den, verbose) ==
    LET startsIn == Filter(T, {i \in 1..Len(T) : lo < T[i].start * den /\ T[i].start * den <= hi})
        endsIn == Filter(T, {i \in 1..Len(T) : lo < T[i].end * den /\ T[i].end * den <= hi})
        starts == SortByTime([i \in 1..Len(startsIn) |-> <<startsIn[i].word, "start", startsIn[i].start>>])
        both == SortByTime(starts \o [i \in 1..Len(endsIn) |-> <<endsIn[i].word, "end", endsIn[i].end>>])
    IN  IF ~verbose
        THEN IF Len(starts) = 0 THEN NoAnn
             ELSE [mode |-> "terse", lo |-> 0, hi |-> 0,
                   items |-> [i \in 1..Len(starts) |-> <<starts[i][1], "", 0>>]]
        ELSE [mode |-> "verbose", lo |-> Fmt3(lo, den), hi |-> Fmt3(hi, den),
              items |-> [i \in 1..Len(both) |-> <<both[i][1], both[i][2], Fmt2(both[i][3])>>]]

\* annotate(start, end, verbose) for the window start = lo/den, end = hi/den
Annotate(T, lo, hi, den, verbose) ==
    LET startsIn == Filter(T, {i \in 1..Len(T) : lo <= T[i].start * den /\ T[i].start * den < hi})
        endsIn == Filter(T, {i \in 1..Len(T) : lo < T[i].end * den /\ T[i].end * den <= hi})
        starts == SortByTime([i \in 1..Len(startsIn) |-> <<startsIn[i].word, "start", startsIn[i].start>>])
        both == SortByTime(starts \o [i \in 1..Len(endsIn) |-> <<endsIn[i].word, "end", endsIn[i].end>>])
    IN  IF ~verbose
        THEN IF Len(starts) = 0 THEN NoAnn
             ELSE [mode |-> "terse", lo |-> 0, hi |-> 0,
                   items |-> [i \in 1..Len(starts) |-> <<starts[i][1], "", 0>>]]
        ELSE [mode |-> "verbose", lo |-> Fmt3(lo, den), hi |-> Fmt3(hi, den),
              items |-> [i \in 1..Len(both) |-> <<both[i][1], both[i][2], Fmt2(both[i][3])>>]]

\* annotate(start, end, verbose=verbose, assisted=assisted), times in ms
annotate(T, start, end, verbose, assisted) ==
    IF assisted /\ ~verbose THEN NoAnn ELSE Annotate(T, start, end, 1, verbose)

-----------------------------------------------------------------------------
(* stlr/utils.py frange and ATLImageGenerator.alternate_frames_for_duration *)

TimeStep == 200

CeilDiv(a, b) == (a + b - 1) \div b

Max(a, b) == IF a >= b THEN a ELSE b

Min(a, b) == IF a <= b THEN a ELSE b

\* <<start, duration, num, den>>: the calls frange(start, start + duration, num/den)
\* in which the double start + n * step is still below the double start + duration
\* at the n where the exact values meet, so that frange yields once more.
FrangeDrift == {<<0, 971, 971, 5>>}

\* len(list(frange(start, start + duration, num/den))), for a step num/den > 0
FrangeCount(start, duration, num, den) ==
    IF duration <= 0 THEN 0
    ELSE CeilDiv(duration * den, num)
         + (IF <<start, duration, num, den>> \in FrangeDrift THEN 1 ELSE 0)

\* the image the cycle [open_mouth, closed_mouth] yields at index i
ImageAt(i) == IF i % 2 = 0 THEN "open" ELSE "closed"

\* alternate_frames_for_duration without its closing line: the frames only
AlternateFramesLeftOpen(T, img, duration, start, num, den, ensure_close, verbose) ==
    LET count == CeilDiv(Max(duration, 0) * den, num)
    IN  [lines |-> [j \in 1..(2 * count) |->
                       IF j % 2 = 1 THEN AssetLine(ImageAt(img + (j - 1) \div 2))
                       ELSE DelayLine(4, Fmt3(num, den), 3, NoAnn)],
         image |-> IF count = 0 THEN "none" ELSE ImageAt(img + count - 1),
         images |-> (img + count) % 2]

\* alternate_frames_for_duration(duration, start, time_step = num/den, ensure_close, verbose)
\* with the cycle at index img: the new lines, the last image used and the cycle after.
\* A frame's window is [time, time + time_step); the windows are handed to annotate in
\* half units, so that the double that falls just short of start + duration in a
\* drifting call lies below the exact value and above every earlier millisecond.
AlternateFrames(T, img, duration, start, num, den, ensure_close, verbose) ==
    LET count == FrangeCount(start, duration, num, den)
        drift == <<start, duration, num, den>> \in FrangeDrift
        Time(k) == start * den + (k - 1) * num
        Lo(k) == 2 * Time(k) - (IF drift /\ k = count THEN 1 ELSE 0)
        Hi(k) == 2 * (Time(k) + num) - (IF drift /\ k = count - 1 THEN 1 ELSE 0)
        Frame(k) == << AssetLine(ImageAt(img + k - 1)),
                       DelayLine(4, Fmt3(num, den), 3,
                                 Annotate(T, Lo(k), Hi(k), 2 * den, verbose)) >>
        frames == [j \in 1..(2 * count) |-> Frame((j + 1) \div 2)[2 - (j % 2)]]
        image == IF count = 0 THEN "none" ELSE ImageAt(img + count - 1)
        close == ensure_close /\ image # "closed"
    IN  [lines |-> frames \o (IF close THEN <<AssetLine(ImageAt(img + count))>> ELSE <<>>),
         image |-> image,
         images |-> (img + count + (IF close THEN 1 ELSE 0)) % 2]

-----------------------------------------------------------------------------
(* ATLImageGenerator.generate_atl *)

generate_atl(T, img, verbose) ==
    LET header == << OtherLine("image", 0, 0),
                     OtherLine("transcription", 0, 0),
                     OtherLine("length", TranscriptionDuration(T), 3) >>
        added == AlternateFrames(T, img, TranscriptionDuration(T), 0, TimeStep, 1, TRUE, verbose)
    IN  [lines |-> header \o added.lines, images |-> added.images]

-----------------------------------------------------------------------------
(* ATLImageGenerator._generate_smart_block and generate_smart_atl *)

\* max(round(word.duration / target_frame_time), 1)
FrameCount(word) == Max(RoundHalfEven(WordDuration(word), TimeStep), 1)

_generate_smart_block(T, img, word, verbose) ==
    LET d == WordDuration(word)
        n == FrameCount(word)
        added == AlternateFrames(T, img, d, word.start, d, n, TRUE, verbose)
    IN  [lines |-> <<BlockLine("pre_block", word.word, Fmt2(d))>>
                   \o added.lines
                   \o <<BlockLine("post_block", word.word, 0)>>,
         images |-> added.images]

PauseAnn == [mode |-> "pause", lo |-> 0, hi |-> 0, items |-> <<>>]

Blank == OtherLine("", 0, 0)

\* ["", f"    {wait:.3f}  # (pause)", ""]: a negative wait prints a sign, which is no leading number
PauseLines(wait) ==
    << Blank,
       IF wait > 0 THEN DelayLine(4, wait, 3, PauseAnn) ELSE OtherLine("pause", wait, 3),
       Blank >>

RECURSIVE SmartBlocks(_, _, _, _)
\* the loop over zip(transcription, waits), from pair i on, with the cycle at index img
SmartBlocks(T, img, i, verbose) ==
    IF i > Min(Len(T), Len(Waits(T))) THEN [lines |-> <<>>, images |-> img]
    ELSE LET block == _generate_smart_block(T, img, T[i], verbose)
             rest == SmartBlocks(T, block.images, i + 1, verbose)
         IN  [lines |-> block.lines
                        \o (IF Waits(T)[i] # 0 THEN PauseLines(Waits(T)[i]) ELSE <<>>)
                        \o rest.lines,
              images |-> rest.images]

\* a word of the loop has a frame length of 0: frange never reaches its stop
SmartLoopsForever(T) ==
    \E i \in 1..Min(Len(T), Len(Waits(T))) : WordDuration(T[i]) = 0

generate_smart_atl(T, img, verbose) ==
    LET header == << OtherLine("image", 0, 0),
                     OtherLine("transcription", 0, 0),
                     OtherLine("length", Fmt2(TranscriptionDuration(T)), 2),
                     OtherLine("closed", 0, 0),
                     DelayLine(4, TranscriptionStart(T), ReprDecimals(TranscriptionStart(T)), NoAnn) >>
        blocks == SmartBlocks(T, img, 1, verbose)
    IN  [lines |-> header \o blocks.lines, images |-> blocks.images]

-----------------------------------------------------------------------------
(* ATLImageGenerator.reannotate *)

RECURSIVE ReannotateLoopBreakAbove(_, _, _, _, _)
\* the for loop leaving only once the time is above the duration
ReannotateLoopBreakAbove(T, script, i, time, verbose) ==
    IF i > Len(script) THEN [lines |-> <<>>, time |-> time, broke |-> FALSE]
    ELSE IF ~HasLeadingFloat(script[i])
    THEN LET rest == ReannotateLoopBreakAbove(T, script, i + 1, time, verbose)
         IN  [rest EXCEPT !.lines = <<script[i]>> \o @]
    ELSE LET pause == read_leading_float(script[i])
             line == DelayLine(get_space_prefix(script[i]), Fmt2(pause), 2,
                               Annotate(T, time, time + pause, 1, verbose))
         IN  IF time + pause > TranscriptionDuration(T)
             THEN [lines |-> <<line>>, time |-> time + pause, broke |-> TRUE]
             ELSE LET rest == ReannotateLoopBreakAbove(T, script, i + 1, time + pause, verbose)
                  IN  [rest EXCEPT !.lines = <<line>> \o @]

RECURSIVE ReannotateLoop(_, _, _, _, _)
\* the for loop over atl.splitlines(), from line i on, with time seconds consumed
ReannotateLoop(T, script, i, time, verbose) ==
    IF i > Len(script) THEN [lines |-> <<>>, time |-> time, broke |-> FALSE]
    ELSE IF ~HasLeadingFloat(script[i])
    THEN LET rest == ReannotateLoop(T, script, i + 1, time, verbose)
         IN  [rest EXCEPT !.lines = <<script[i]>> \o @]
    ELSE LET pause == read_leading_float(script[i])
             line == DelayLine(get_space_prefix(script[i]), Fmt2(pause), 2,
                               Annotate(T, time, time + pause, 1, verbose))
         IN  IF time + pause >= TranscriptionDuration(T)
             THEN [lines |-> <<line>>, time |-> time + pause, broke |-> TRUE]
             ELSE LET rest == ReannotateLoop(T, script, i + 1, time + pause, verbose)
                  IN  [rest EXCEPT !.lines = <<line>> \o @]

\* reannotate without the else branch of its loop: an exhausted script is not extended
reannotate_without_extension(T, img, script, verbose) ==
    [lines |-> ReannotateLoop(T, script, 1, 0, verbose).lines, images |-> img]

reannotate(T, img, script, verbose) ==
    LET loop == ReannotateLoop(T, script, 1, 0, verbose)
        exhausted == ~loop.broke /\ loop.time < TranscriptionDuration(T)
        added == AlternateFrames(T, img, TranscriptionDuration(T) - loop.time, loop.time,
                                 TimeStep, 1, TRUE, verbose)
    IN  IF exhausted
        THEN [lines |-> loop.lines \o added.lines, images |-> added.images]
        ELSE [lines |-> loop.lines, images |-> img]

-----------------------------------------------------------------------------
(* The generator as a state machine: one ATLImageGenerator, the script its *)
(* caller holds, and the calls made on it.                                 *)

GenWords == {WordTiming(w, s, e) : w \in GenTexts, s \in GenTimes, e \in GenTimes} 

\* the transcriptions of at most n words over the given words: a word ends no
\* earlier than it starts, and no word starts before the one before it
TranscriptionsOver(choices, n) ==
    UNION { {T \in [1..k -> {w \in choices : w.start <= w.end}] :
                \A i \in 1..(k - 1) : T[i].start <= T[i + 1].start} : k \in 0..n }

NoCall == [op |-> "none", verbose |-> FALSE, arg |-> <<>>, ret |-> <<>>]

Call(op, verbose, arg, ret) == [op |-> op, verbose |-> verbose, arg |-> arg, ret |-> ret]

\* no get_segments call was made
NoSegments == tolerance = 0 /\ segments = <<>>

NoResult == [segments |-> <<>>, made |-> FALSE]

NotLoaded == [made |-> FALSE, word_timings |-> <<>>]

\* no get_fragment call was made
NoFragment == fragment = [made |-> FALSE, tokens |-> <<>>, segment |-> <<>>, raised |-> "none"]

\* a cache as ModelCache.__init__ leaves it, and no get call made
NoModels ==
    /\ models = <<>>
    /\ got = [made |-> FALSE, library |-> "", model_name |-> "", device |-> "",
              raised |-> "none", model |-> <<>>]

\* nothing was exported or loaded
NoFile ==
    /\ file = [mode |-> "none", data |-> <<>>, whole |-> FALSE, raised |-> "none"]
    /\ loaded = NotLoaded

NoRow == [whisper |-> <<>>, vosk |-> <<>>, matching |-> <<>>]

\* no reconcile call was made
NoReconcile ==
    /\ whisper_result = [text |-> <<>>, segments |-> <<>>]
    /\ vosk_result = <<>>
    /\ mode = "assisted"
    /\ pc = "idle"
    /\ rows_left = 0
    /\ row = NoRow
    /\ group = 0
    /\ true_transcription = 0
    /\ timings = 0
    /\ words = <<>>
    /\ _result = NoResult

\* a generator as __init__ leaves it, holding an empty script
NewGenerator ==
    /\ images = 0
    /\ atl = <<>>
    /\ atl_box = <<>>
    /\ last_call = NoCall
    /\ hung = FALSE

InitGen ==
    /\ transcription \in TranscriptionsOver(GenWords, MaxWords)
    /\ NewGenerator
    /\ NoSegments
    /\ NoFile
    /\ NoFragment
    /\ NoModels
    /\ NoReconcile

\* the caller's script = generator.generate_atl(verbose=...); the method keeps a copy in _atl
GenerateAtl(verbose) ==
    /\ ~hung
    /\ LET r == generate_atl(transcription, images, verbose)
       IN  /\ atl' = r.lines
           /\ atl_box' = r.lines
           /\ images' = r.images
           /\ last_call' = Call("generate_atl", verbose, <<>>, r.lines)
    /\ UNCHANGED <<transcription, hung, nongen>>

\* the caller's script = generator.generate_smart_atl(verbose=...); a word of frame
\* length 0 keeps the call in frange for ever
GenerateSmartAtl(verbose) ==
    /\ ~hung
    /\ IF SmartLoopsForever(transcription)
       THEN /\ hung' = TRUE
            /\ UNCHANGED <<atl_box, images, last_call>>
       ELSE LET r == generate_smart_atl(transcription, images, verbose)
            IN  /\ atl_box' = r.lines
                /\ images' = r.images
                /\ last_call' = Call("generate_smart_atl", verbose, <<>>, r.lines)
                /\ hung' = FALSE
    /\ UNCHANGED <<transcription, atl, nongen>>

\* the caller's script = generator.reannotate(atl=script, verbose=...)
Reannotate(verbose) ==
    /\ ~hung
    /\ LET r == reannotate(transcription, images, atl_box, verbose)
       IN  /\ atl_box' = r.lines
           /\ images' = r.images
           /\ last_call' = Call("reannotate", verbose, atl_box, r.lines)
    /\ UNCHANGED <<transcription, atl, hung, nongen>>

NextGen ==
    \/ \E verbose \in BOOLEAN : GenerateAtl(verbose)
    \/ \E verbose \in BOOLEAN : GenerateSmartAtl(verbose)
    \/ \E verbose \in BOOLEAN : Reannotate(verbose)

SpecGen == InitGen /\ [][NextGen]_vars

-----------------------------------------------------------------------------
(* Reading a script *)

\* the positions of the lines of a kind
LinesOfKind(script, kind) == {i \in 1..Len(script) : script[i].kind = kind}

SetMax(S) == CHOOSE x \in S : \A y \in S : y <= x

SetMin(S) == CHOOSE x \in S : \A y \in S : x <= y

\* the image of the last asset line of a script, "none" when it has no asset line
LastAsset(script) ==
    IF LinesOfKind(script, "asset") = {} THEN "none"
    ELSE script[SetMax(LinesOfKind(script, "asset"))].txt

RECURSIVE SumDelays(_)
\* the sum of the delays a script's delay lines show, in ms
SumDelays(script) ==
    IF Len(script) = 0 THEN 0
    ELSE SumDelays(SubSeq(script, 1, Len(script) - 1))
         + (IF script[Len(script)].kind = "delay" THEN script[Len(script)].val ELSE 0)

\* the positions of the lines that open a word's block, in order
BlockOpenings(script) == {i \in 1..Len(script) : script[i].txt = "pre_block"}

\* the k-th block of a script: the lines between its opening and closing comments
BlockOf(script, k) ==
    LET open == CHOOSE i \in BlockOpenings(script) :
                    Cardinality({j \in BlockOpenings(script) : j <= i}) = k
        close == SetMin({j \in (open + 1)..Len(script) : script[j].txt = "post_block"})
    IN  SubSeq(script, open + 1, close - 1)

NumBlocks(script) == Cardinality(BlockOpenings(script))

NumDelays(script) == Cardinality(LinesOfKind(script, "delay"))

-----------------------------------------------------------------------------
(* The generator on scripts a user wrote or edited by hand *)

\* an annotation left over from an earlier run or typed by the user
StaleAnn == [mode |-> "user", lo |-> 0, hi |-> 0, items |-> <<>>]

\* the lines a hand-written script is made of
LineChoices ==
    { OpenMouth, ClosedMouth, OtherLine("user", 0, 0),
      DelayLine(4, 126, 3, NoAnn), DelayLine(0, 200, 1, StaleAnn), DelayLine(4, 400, 2, NoAnn) }

UserScripts == UNION { [1..k -> LineChoices] : k \in 0..MaxLines }

InitEdit ==
    /\ transcription \in TranscriptionsOver(GenWords, 1)
    /\ images = 0
    /\ atl = <<>>
    /\ atl_box \in UserScripts
    /\ last_call = NoCall
    /\ hung = FALSE
    /\ NoSegments
    /\ NoFile
    /\ NoFragment
    /\ NoModels
    /\ NoReconcile

NextEdit == \E verbose \in BOOLEAN : Reannotate(verbose)

SpecEdit == InitEdit /\ [][NextEdit]_vars

-----------------------------------------------------------------------------
(* The generator's annotate, called on its own *)

AnnTexts == {"a", "b"}

AnnTimes == {0, 126, 400}

AnnWords == {WordTiming(w, s, e) : w \in AnnTexts, s \in AnnTimes, e \in AnnTimes}

InitAnn ==
    /\ transcription \in TranscriptionsOver(AnnWords, MaxWords)
    /\ NewGenerator
    /\ NoSegments
    /\ NoFile
    /\ NoFragment
    /\ NoModels
    /\ NoReconcile

\* generator.annotate(start, end, verbose=verbose, assisted=assisted)
AnnotateCall(start, end, verbose, assisted) ==
    /\ last_call' = Call("annotate", verbose, <<start, end, assisted>>,
                         annotate(transcription, start, end, verbose, assisted))
    /\ UNCHANGED <<transcription, images, atl, atl_box, hung, nongen>>

NextAnn ==
    \E start \in AnnTimes, end \in AnnTimes, verbose \in BOOLEAN, assisted \in BOOLEAN :
        start <= end /\ AnnotateCall(start, end, verbose, assisted)

SpecAnn == InitAnn /\ [][NextAnn]_vars

-----------------------------------------------------------------------------
(* Claims about the frame timing generator *)

\* the delay lines of a script reach the transcription's duration
Covers(script) == SumDelays(script) >= TranscriptionDuration(transcription)

\* C1: reannotate is idempotent on covering scripts: re-annotating the result of
\* re-annotating a script whose delays sum to at least the duration, with the same
\* verbose flag, returns that result unchanged, whatever the decimals of the delays.
C1_ReannotateIdempotent ==
    [][ ( /\ last_call.op = "reannotate"
          /\ Covers(last_call.arg)
          /\ last_call'.op = "reannotate"
          /\ last_call'.verbose = last_call.verbose
          /\ last_call'.arg = last_call.ret )
        => last_call'.ret = last_call.ret ]_vars

\* C3: generate_atl always ends on State-Closed: the last asset line of the script
\* it returns is the closed-mouth image, for every transcription, the empty one included.
C3_FixedStepEndsClosed ==
    last_call.op = "generate_atl" => LastAsset(last_call.ret) = "closed"

\* C4: generate_smart_atl ends every word on State-Closed: the last asset line of
\* every word's block is the closed-mouth image, whatever the number of frames of
\* the block and of the blocks before it.
C4_EveryWordEndsClosed ==
    last_call.op = "generate_smart_atl" =>
        \A k \in 1..NumBlocks(last_call.ret) :
            LastAsset(BlockOf(last_call.ret, k)) = "closed"

\* C4 is witnessed by a script with a block of an odd and a later block of an even
\* number of frames.
C4_Witness ==
    /\ last_call.op = "generate_smart_atl"
    /\ \E j, k \in 1..NumBlocks(last_call.ret) :
           /\ j < k
           /\ NumDelays(BlockOf(last_call.ret, j)) % 2 = 1
           /\ NumDelays(BlockOf(last_call.ret, k)) % 2 = 0
           /\ NumDelays(BlockOf(last_call.ret, k)) > 0

\* C5: for each word of positive duration d, generate_smart_atl emits exactly
\* n = max(1, round(d / 0.2)) frames in the word's block, and n frames of length d / n
\* span d within 1e-6 s (0.001 ms).
C5_FramesSpanWord ==
    last_call.op = "generate_smart_atl" =>
        \A k \in 1..NumBlocks(last_call.ret) :
            LET d == WordDuration(transcription[k])
                n == Max(RoundHalfEven(d, TimeStep), 1)
                frames == NumDelays(BlockOf(last_call.ret, k))
                diff == IF frames >= n THEN (frames - n) * d ELSE (n - frames) * d
            IN  d > 0 => (frames = n /\ diff * 1000 <= n)

\* the script ran out before its delays reached the transcription's duration
Exhausted(script) == SumDelays(script) < TranscriptionDuration(transcription)

\* the lines reannotate appended to the lines it made of its argument
AppendedLines(call) == SubSeq(call.ret, Len(call.arg) + 1, Len(call.ret))

\* C8: reannotate on an exhausted script returns the re-annotated script (every line
\* of the argument in place, a line without a delay unchanged) followed by fixed-step
\* frames whose images alternate, that start at the running time and whose delays
\* total at least duration - running time; the last asset line is the closed mouth.
C8_ExhaustedScriptIsExtended ==
    (last_call.op = "reannotate" /\ Exhausted(last_call.arg)) =>
        LET arg == last_call.arg
            ret == last_call.ret
            tail == AppendedLines(last_call)
            running == SumDelays(arg)
            frames == NumDelays(tail)
        IN  /\ Len(ret) > Len(arg)
            /\ \A i \in 1..Len(arg) :
                   /\ ret[i].kind = arg[i].kind
                   /\ arg[i].kind # "delay" => ret[i] = arg[i]
            /\ Len(tail) \in {2 * frames, 2 * frames + 1}
            /\ \A i \in 1..Len(tail) :
                   /\ tail[i].kind = (IF i % 2 = 1 THEN "asset" ELSE "delay")
                   /\ i % 2 = 0 => tail[i].val = TimeStep
                   /\ i + 2 <= Len(tail) /\ i % 2 = 1 => tail[i].txt # tail[i + 2].txt
            /\ last_call.verbose => tail[2].ann.lo = running
            /\ frames * TimeStep >= TranscriptionDuration(transcription) - running
            /\ LastAsset(ret) = "closed"

\* C8 is witnessed by a hand-written script that consumed some delay, ran out, and
\* got an odd number of frames, three at least, and the closing image appended.
C8_Witness ==
    /\ last_call.op = "reannotate"
    /\ Exhausted(last_call.arg)
    /\ SumDelays(last_call.arg) > 0
    /\ NumDelays(AppendedLines(last_call)) >= 3
    /\ Len(AppendedLines(last_call)) % 2 = 1

-----------------------------------------------------------------------------
(* The word-aligned script of words that follow one another *)

SmartTimes == {0, 971, 1200}

SmartWords == {WordTiming(w, s, e) : w \in AnnTexts, s \in SmartTimes, e \in SmartTimes}

InitSmart ==
    /\ transcription \in TranscriptionsOver(SmartWords, MaxWords)
    /\ NewGenerator
    /\ NoSegments
    /\ NoFile
    /\ NoFragment
    /\ NoModels
    /\ NoReconcile

NextSmart == \E verbose \in BOOLEAN : GenerateSmartAtl(verbose)

SpecSmart == InitSmart /\ [][NextSmart]_vars

-----------------------------------------------------------------------------
(* Claims about the word-aligned script *)

\* no word starts before the word before it ended
NonOverlapping(T) == \A i \in 1..(Len(T) - 1) : T[i].end <= T[i + 1].start

\* the position of the line that opens the i-th block of a script
BlockOpening(script, i) ==
    CHOOSE p \in BlockOpenings(script) : Cardinality({q \in BlockOpenings(script) : q <= p}) = i

RECURSIVE FrameTimeBefore(_, _, _)
\* the time the frames of the blocks before the i-th take, in sixtieths of a ms:
\* a word of duration d with n = FrameCount frames planned has frames of d / n each
FrameTimeBefore(script, T, i) ==
    IF i <= 1 THEN 0
    ELSE FrameTimeBefore(script, T, i - 1)
         + NumDelays(BlockOf(script, i - 1)) * WordDuration(T[i - 1]) * (60 \div FrameCount(T[i - 1]))

\* the delays of the initial delay line and of the pause lines before the i-th
\* block, in sixtieths of a ms
PauseTimeBefore(script, i) ==
    LET before == SubSeq(script, 1, BlockOpening(script, i) - 1)
        outside == [j \in 1..Len(before) |->
                       IF j = 5 \/ before[j].ann = PauseAnn THEN before[j] ELSE Blank]
    IN  60 * SumDelays(outside)

\* C23: in the script of generate_smart_atl for a transcription whose consecutive
\* words do not overlap, the computed delays of the delay lines before a word's
\* first frame (the initial delay, the frames of the earlier words, the pauses)
\* sum to the word's start.
C23_BlocksStartAtWordStart ==
    (last_call.op = "generate_smart_atl" /\ NonOverlapping(transcription)) =>
        \A i \in 1..NumBlocks(last_call.ret) :
            PauseTimeBefore(last_call.ret, i) + FrameTimeBefore(last_call.ret, transcription, i)
                = 60 * transcription[i].start

\* C24: Transcription.waits has one entry for each word of a transcription of one
\* word or more, the i-th being the start of word i+1 minus the end of word i and
\* the last 0, so that generate_smart_atl, which pairs words with waits, emits a
\* block for every word.
C24_WaitsHasAnEntryPerWord ==
    (last_call.op = "generate_smart_atl" /\ Len(transcription) >= 1) =>
        LET n == Len(transcription)
            waits == Waits(transcription)
        IN  /\ Len(waits) = n
            /\ \A i \in 1..(n - 1) : waits[i] = transcription[i + 1].start - transcription[i].end
            /\ waits[n] = 0
            /\ NumBlocks(last_call.ret) = n

\* C25: the atl property returns the generated script: right after a call of
\* generate_atl or generate_smart_atl, atl is the script that call returned.
C25_AtlIsTheLatestScript ==
    last_call.op \in {"generate_atl", "generate_smart_atl"} => atl = last_call.ret

\* C27: generate_smart_atl returns for every transcription whose words have
\* start <= end, a word of zero duration included: no call stays in the frame
\* loop of a word for ever.
C27_WordAlignedTerminates == ~hung

\* C28: re-annotating a freshly generated script keeps it closed: when generate_atl
\* returned a script whose last asset line is the closed mouth, reannotate of that
\* script on the same generator returns one whose last asset line is the closed
\* mouth too, also when generate_atl closed an odd number of frames with a final line.
C28_ReannotateKeepsFreshScriptClosed ==
    [][ ( /\ last_call.op = "generate_atl"
          /\ LastAsset(last_call.ret) = "closed"
          /\ last_call'.op = "reannotate"
          /\ last_call'.arg = last_call.ret )
        => LastAsset(last_call'.ret) = "closed" ]_vars

\* the position of the k-th delay line of a script
DelayAt(script, k) ==
    CHOOSE p \in LinesOfKind(script, "delay") :
        Cardinality({q \in LinesOfKind(script, "delay") : q <= p}) = k

\* C29: in the terse script of generate_atl for a transcription that is not empty,
\* every word is listed on exactly one delay line, the frame whose window
\* [t, t + 0.2) holds the word's start: the k-th frame lists the words that start
\* in its window, and every word's start lies in the window of a frame, that of a
\* last word starting at the transcription's duration included.
C29_EveryWordListedOnce ==
    (last_call.op = "generate_atl" /\ ~last_call.verbose /\ Len(transcription) >= 1) =>
        /\ \A k \in 1..NumDelays(last_call.ret) :
               Len(last_call.ret[DelayAt(last_call.ret, k)].ann.items)
                 = Cardinality({i \in 1..Len(transcription) :
                                  /\ (k - 1) * TimeStep <= transcription[i].start
                                  /\ transcription[i].start < k * TimeStep})
        /\ \A i \in 1..Len(transcription) :
               transcription[i].start < NumDelays(last_call.ret) * TimeStep

-----------------------------------------------------------------------------
(* Claims about reannotate on hand-written scripts *)

\* the delay lines of a script after which the delays read so far reach the duration
CutPoints(script) ==
    {i \in LinesOfKind(script, "delay") :
        SumDelays(SubSeq(script, 1, i)) >= TranscriptionDuration(transcription)}

\* the script has a delay line at which reannotate cuts it
Overrun(script) == CutPoints(script) # {}

\* the number of lines reannotate reads of a script: up to its first cut point
LinesRead(script) == IF Overrun(script) THEN SetMin(CutPoints(script)) ELSE Len(script)

\* C15: once the delays read reach or exceed the transcription's duration after a
\* delay line, that delay line is the last line of reannotate's output: no later
\* line of the script is emitted, no frame is appended, and the call returns.
C15_CutAtDuration ==
    (last_call.op = "reannotate" /\ Overrun(last_call.arg)) =>
        /\ Len(last_call.ret) = LinesRead(last_call.arg)
        /\ last_call.ret[Len(last_call.ret)].kind = "delay"
        /\ \A i \in 1..Len(last_call.ret) : last_call.ret[i].kind = last_call.arg[i].kind
        /\ ~hung

\* a script whose delays reach the duration exactly at a delay line that other
\* lines follow, cut there
C15_Witness ==
    /\ last_call.op = "reannotate"
    /\ Overrun(last_call.arg)
    /\ TranscriptionDuration(transcription) > 0
    /\ LinesRead(last_call.arg) \in 2..(Len(last_call.arg) - 1)
    /\ SumDelays(SubSeq(last_call.arg, 1, LinesRead(last_call.arg)))
           = TranscriptionDuration(transcription)
    /\ Len(last_call.ret) = LinesRead(last_call.arg)

\* the lines of a script that do not begin with a number, in order
LinesWithoutDelay(script) == SelectSeq(script, LAMBDA line : line.kind # "delay")

\* C16: reannotate passes through every line that does not begin with a decimal
\* number: each such line before the point where the script is cut is in the
\* output unchanged, and these lines keep their relative order.
C16_OtherLinesPassThrough ==
    last_call.op = "reannotate" =>
        LET n == LinesRead(last_call.arg)
        IN  /\ Len(last_call.ret) >= n
            /\ \A i \in 1..n :
                   last_call.arg[i].kind # "delay" => last_call.ret[i] = last_call.arg[i]
            /\ LinesWithoutDelay(SubSeq(last_call.ret, 1, n))
                   = LinesWithoutDelay(SubSeq(last_call.arg, 1, n))

\* a script with two different lines without a number around a delay line whose
\* annotation changed, all three before the cut
C16_Witness ==
    /\ last_call.op = "reannotate"
    /\ LinesRead(last_call.arg) >= 3
    /\ \E i, j, k \in 1..LinesRead(last_call.arg) :
          /\ i < j /\ j < k
          /\ last_call.arg[i].kind = "asset"
          /\ last_call.arg[j].kind = "delay"
          /\ last_call.arg[k].kind = "other"
          /\ last_call.ret[j] # last_call.arg[j]
          /\ last_call.ret[i] = last_call.arg[i]
          /\ last_call.ret[k] = last_call.arg[k]

\* C17: reannotate changes only the annotation of a delay line: every delay line
\* it keeps is re-emitted with the same leading whitespace and the same delay
\* value, so the delays of the output sum to the delays read.
C17_DelayLinesKeepTheirValue ==
    last_call.op = "reannotate" =>
        LET n == LinesRead(last_call.arg)
        IN  /\ Len(last_call.ret) >= n
            /\ \A i \in 1..n :
                   last_call.arg[i].kind = "delay" =>
                       /\ last_call.ret[i].kind = "delay"
                       /\ last_call.ret[i].indent = last_call.arg[i].indent
                       /\ last_call.ret[i].val = last_call.arg[i].val
            /\ SumDelays(SubSeq(last_call.ret, 1, n)) = SumDelays(SubSeq(last_call.arg, 1, n))

-----------------------------------------------------------------------------
(* Claims about annotate *)

\* s and t hold the same elements, each as many times
SameItems(s, t) ==
    /\ Len(s) = Len(t)
    /\ \A i \in 1..Len(s) :
          Cardinality({j \in 1..Len(s) : s[j] = s[i]}) = Cardinality({j \in 1..Len(t) : t[j] = s[i]})

\* the items of a verbose annotation that are events of the kind bound
EventsOf(ann, bound) == SelectSeq(ann.items, LAMBDA x : x[2] = bound)

\* the start events a verbose annotation shows for the words w of T with Test(w)
StartEvents(T, Test(_)) ==
    LET ws == SelectSeq(T, Test) IN [i \in 1..Len(ws) |-> <<ws[i].word, "start", Fmt2(ws[i].start)>>]

\* the end events a verbose annotation shows for the words w of T with Test(w)
EndEvents(T, Test(_)) ==
    LET ws == SelectSeq(T, Test) IN [i \in 1..Len(ws) |-> <<ws[i].word, "end", Fmt2(ws[i].end)>>]

\* the events of the annotation are in non-decreasing time order
InTimeOrder(ann) == \A i \in 1..(Len(ann.items) - 1) : ann.items[i][3] <= ann.items[i + 1][3]

\* a verbose call, whatever assisted is
VerboseCall == last_call.op = "annotate" /\ last_call.verbose

\* a terse call with assisted left at its default, False
TerseCall == last_call.op = "annotate" /\ ~last_call.verbose /\ ~last_call.arg[3]

\* C13 as stated: a verbose annotate(start, end) lists, besides the start events,
\* an end event for exactly the words whose end time lies in [start, end) (an end
\* equal to start included, an end equal to end not), all events in
\* non-decreasing time order.
C13_EndsInHalfOpenWindow ==
    VerboseCall =>
        LET start == last_call.arg[1]
            end == last_call.arg[2]
        IN  /\ SameItems(EventsOf(last_call.ret, "start"),
                         StartEvents(transcription, LAMBDA w : start <= w.start /\ w.start < end))
            /\ SameItems(EventsOf(last_call.ret, "end"),
                         EndEvents(transcription, LAMBDA w : start <= w.end /\ w.end < end))
            /\ InTimeOrder(last_call.ret)

\* C14: a terse annotate(start, end) lists the text of exactly the words whose
\* start lies in [start, end), in non-decreasing start-time order, and yields
\* the empty annotation when no word starts in the window.
C14_TerseListsWordsStartingInWindow ==
    TerseCall =>
        LET start == last_call.arg[1]
            end == last_call.arg[2]
            ws == SelectSeq(transcription, LAMBDA w : start <= w.start /\ w.start < end)
        IN  IF Len(ws) = 0 THEN last_call.ret = NoAnn
            ELSE /\ last_call.ret.mode = "terse"
                 /\ Len(last_call.ret.items) = Len(ws)
                 /\ \A i \in 1..Len(ws) : last_call.ret.items[i][1] = ws[i].word
                 /\ \A i \in 1..(Len(ws) - 1) : ws[i].start <= ws[i + 1].start

\* a terse call that lists the word starting at the window's start and leaves
\* out a different word starting at the window's end
C14_Witness ==
    /\ TerseCall
    /\ last_call.arg[1] < last_call.arg[2]
    /\ last_call.ret # NoAnn
    /\ Len(last_call.ret.items) = 1
    /\ \E i, j \in 1..Len(transcription) :
          /\ transcription[i].start = last_call.arg[1]
          /\ transcription[j].start = last_call.arg[2]
          /\ transcription[i].word # transcription[j].word
          /\ last_call.ret.items[1][1] = transcription[i].word

-----------------------------------------------------------------------------
(* stlr/transcribe.py: Segment and Transcription.get_segments *)

MaxSegWords == 3

\* word times and tolerances, in ms; all are exact as doubles of seconds
SegTimes == {0, 250, 500, 1000}
Tolerances == {0, 250, 500}

Segment(block, wait_after) == [words |-> block, wait_after |-> wait_after]

RECURSIVE SegmentsLoopLosingWord(_, _, _, _)
\* the loop, starting the new block empty instead of with the current word
SegmentsLoopLosingWord(pairs, i, block, tol) ==
    IF i > Len(pairs) THEN <<Segment(block, 0)>>
    ELSE LET wait == pairs[i][2].start - pairs[i][1].end
         IN  IF wait <= tol
             THEN SegmentsLoopLosingWord(pairs, i + 1, Append(block, pairs[i][2]), tol)
             ELSE <<Segment(block, wait)>> \o SegmentsLoopLosingWord(pairs, i + 1, <<>>, tol)

RECURSIVE SegmentsLoopStrict(_, _, _, _)
\* the loop, comparing wait < tolerance instead of wait <= tolerance
SegmentsLoopStrict(pairs, i, block, tol) ==
    IF i > Len(pairs) THEN <<Segment(block, 0)>>
    ELSE LET wait == pairs[i][2].start - pairs[i][1].end
         IN  IF wait < tol
             THEN SegmentsLoopStrict(pairs, i + 1, Append(block, pairs[i][2]), tol)
             ELSE <<Segment(block, wait)>> \o SegmentsLoopStrict(pairs, i + 1, <<pairs[i][2]>>, tol)

RECURSIVE SegmentsLoop(_, _, _, _)
\* the loop over the pairs of neighbours, from pair i on, with the block built so far
SegmentsLoop(pairs, i, block, tol) ==
    IF i > Len(pairs) THEN <<Segment(block, 0)>>
    ELSE LET prev == pairs[i][1]
             curr == pairs[i][2]
             wait == curr.start - prev.end
         IN  IF wait <= tol
             THEN SegmentsLoop(pairs, i + 1, Append(block, curr), tol)
             ELSE <<Segment(block, wait)>> \o SegmentsLoop(pairs, i + 1, <<curr>>, tol)

\* list(T.get_segments(tolerance = tol))
get_segments(T, tol) ==
    IF Len(T) < 2 THEN <<Segment(T, 0)>>
    ELSE SegmentsLoop(Pairwise(T), 1, <<T[1]>>, tol)

SegWords == {WordTiming(w, s, e) : w \in GenTexts, s \in SegTimes, e \in SegTimes}

InitSeg ==
    /\ transcription \in TranscriptionsOver(SegWords, MaxSegWords)
    /\ NewGenerator
    /\ NoSegments
    /\ NoFile
    /\ NoFragment
    /\ NoModels
    /\ NoReconcile

\* segments = list(transcription.get_segments(tolerance = tol))
GetSegments(tol) ==
    /\ tolerance' = tol
    /\ segments' = get_segments(transcription, tol)
    /\ UNCHANGED <<transcription, genvars, recvars, trvars>>

NextSeg == \E tol \in Tolerances : GetSegments(tol)

SpecSeg == InitSeg /\ [][NextSeg]_vars

-----------------------------------------------------------------------------
(* Claims about the segment extractor *)

RECURSIVE Concat(_)
\* the words of the segments, one segment after the other
Concat(segs) == IF Len(segs) = 0 THEN <<>> ELSE Head(segs).words \o Concat(Tail(segs))

\* C6: for every transcription and every tolerance >= 0, the words of the segments
\* get_segments yields, concatenated in the order yielded, are the transcription's
\* words: none dropped, duplicated or reordered.
C6_SegmentsKeepWords ==
    Len(segments) > 0 => Concat(segments) = transcription

\* C6 is witnessed by a call that split a transcription into three segments.
C6_Witness ==
    /\ Len(segments) >= 3
    /\ Len(transcription) >= 3

\* the index in the transcription of the first word of segment k
FirstIndex(segs, k) == Len(Concat(SubSeq(segs, 1, k - 1))) + 1

\* the words i and i + 1 of the transcription lie in different segments
SplitAfter(segs, i) == \E k \in 2..Len(segs) : FirstIndex(segs, k) = i + 1

\* C7: get_segments splits between two consecutive words exactly when
\* next.start - prev.end > tolerance: a gap equal to the tolerance keeps both words
\* in one segment, a greater gap puts them in different segments.
C7_SplitsOnlyAbovePauseTolerance ==
    Len(segments) > 0 =>
        \A i \in 1..(Len(transcription) - 1) :
            SplitAfter(segments, i)
                <=> transcription[i + 1].start - transcription[i].end > tolerance

\* C7 is witnessed by a call on a transcription with a gap equal to a positive
\* tolerance, kept together, before a gap above it, split.
C7_Witness ==
    /\ Len(segments) = 2
    /\ tolerance > 0
    /\ \E i, j \in 1..(Len(transcription) - 1) :
           /\ i < j
           /\ transcription[i + 1].start - transcription[i].end = tolerance
           /\ transcription[j + 1].start - transcription[j].end > tolerance

-----------------------------------------------------------------------------
(* stlr/hoshi.py: reconcile and the HoshiAssistant                          *)
(*                                                                         *)
(* A text is the sequence of its whitespace-separated tokens, so that      *)
(* str.split() is the identity and ' '.join the concatenation.             *)

MaxStream == 2
MaxRows == 2

\* what was said, word by word
Spoken == <<"one", "two", "three", "four">>

\* vosk's i-th timed word: it hears the right word, or another one for the first
VoskWords(i) ==
    {WordTiming(<<w>>, 500 * (i - 1), 500 * (i - 1) + 400) :
        w \in (IF i = 1 THEN {Spoken[i], "uh"} ELSE {Spoken[i]})}

VoskResults == UNION { {B \in [1..n -> UNION {VoskWords(i) : i \in 1..n}] :
                           \A i \in 1..n : B[i] \in VoskWords(i)} : n \in 0..MaxStream }

RECURSIVE Segmentations(_)
\* the ways whisper cuts a text into segments of one word at least
Segmentations(text) ==
    IF Len(text) = 0 THEN {<<>>}
    ELSE UNION { { <<[text |-> SubSeq(text, 1, k), words |-> <<>>]>> \o rest :
                     rest \in Segmentations(SubSeq(text, k + 1, Len(text))) } : k \in 1..Len(text) }

WhisperResults ==
    UNION { { [text |-> SubSeq(Spoken, 1, n), segments |-> segs] :
                segs \in Segmentations(SubSeq(Spoken, 1, n)) } : n \in 0..MaxStream }

Modes == {"assisted", "always-assisted", "simple"}

\* min(w.start for w in ws), max(w.end for w in ws), for a ws that is not empty
MinStart(ws) == SetMin({ws[i].start : i \in 1..Len(ws)})
MaxEnd(ws) == SetMax({ws[i].end : i \in 1..Len(ws)})

RECURSIVE Join(_)
\* ' '.join(...)
Join(texts) == IF Len(texts) = 0 THEN <<>> ELSE Head(texts) \o Join(Tail(texts))

RECURSIVE EqualSimpleLoop(_, _, _)
\* _reconcile_equal_simple's loop, from segment k on, with vosk_words having yielded v
\* items: zip(vosk_words, whisper_words) draws a timed word first and the text word
\* second, so it has drawn one timed word too many when the text words run out
EqualSimpleLoop(segs, vosk, v) ==
    IF Len(segs) = 0 THEN <<>>
    ELSE LET m == Len(Head(segs).text)
             left == Len(vosk) - v
             paired == Min(m, left)
             drawn == Min(m + 1, left)
         IN  <<[Head(segs) EXCEPT !.words = SubSeq(vosk, v + 1, v + paired)]>>
             \o EqualSimpleLoop(Tail(segs), vosk, v + drawn)

_reconcile_equal_simple(whisper, vosk) ==
    [whisper EXCEPT !.segments = EqualSimpleLoop(whisper.segments, vosk, 0)]

\* for a vosk_result that is not empty; min() of nothing raises ValueError
_reconcile_unequal_simple(whisper, vosk) ==
    [whisper EXCEPT !.segments =
        << [start |-> MinStart(vosk), end |-> MaxEnd(vosk), words |-> vosk,
            text |-> Join([i \in 1..Len(vosk) |-> vosk[i].word])] >>]

\* the path of a reconcile that takes the fast path on equal counts whatever the mode
PathEqualFirst(whisper, vosk, m) ==
    IF Len(whisper.text) = Len(vosk) THEN "equal"
    ELSE IF m = "simple" THEN "simple"
    ELSE "assisted"

\* the path reconcile takes
Path(whisper, vosk, m) ==
    IF Len(whisper.text) = Len(vosk) /\ m # "always-assisted" THEN "equal"
    ELSE IF m = "simple" THEN "simple"
    ELSE "assisted"

WhisperResult(whisper) == [segments |-> whisper.segments, made |-> TRUE]

\* the texts a user leaves in an entry of the assistant: words, and "/" between
\* sub-groups
PhraseChoices == { <<>>, <<"w">>, <<"w", "w">>, <<"w", "/", "w">>, <<"/", "w">> }

MatchingChoices == { <<>>, <<"w">>, <<"w", "w">> }

\* the numbers of rows of the assistant: one row for each block that
\* diff_block_str(whisper_text, vosk_text) yields
RowCounts == 1..MaxRows

RECURSIVE SplitOnSlash(_, _)
\* re.split(r"\s*/\s*", phrase), each part split() into its words; part is the
\* part before the tokens not yet read
SplitOnSlash(phrase, part) ==
    IF Len(phrase) = 0 THEN <<part>>
    ELSE IF Head(phrase) = "/" THEN <<part>> \o SplitOnSlash(Tail(phrase), <<>>)
    ELSE SplitOnSlash(Tail(phrase), Append(part, Head(phrase)))

\* zip(whisper_segments, vosk_segments): the pairs of sub-groups of a row
NumGroups(r) == Min(Len(SplitOnSlash(r.whisper, <<>>)), Len(SplitOnSlash(r.vosk, <<>>)))

n_whisper(r, g) == Len(SplitOnSlash(r.whisper, <<>>)[g])

n_vosk(r, g) == Len(SplitOnSlash(r.vosk, <<>>)[g])

\* one pass of _reconcile_one's loop without the test of n_vosk: no timings asked
\* for, none got, and vosk_words[0] raises
_reconcile_one_without_skip(text, vosk, t, v, a, b) ==
    LET got_a == Min(a, Len(text) - t)
        got_b == Min(b, Len(vosk) - v)
    IN  [true_transcription |-> t + got_a,
         timings |-> v + got_b,
         raised |-> got_b = 0,
         yielded |-> IF got_b = 0 THEN <<>>
                     ELSE <<WordTiming(SubSeq(text, t + 1, t + got_a),
                                       vosk[v + 1].start, vosk[v + got_b].end)>>]

\* one pass of _reconcile_one's loop, for declared counts a and b, with the iterators
\* having yielded t words and v timings: islice takes what is left when less is left
_reconcile_one(text, vosk, t, v, a, b) ==
    LET got_a == Min(a, Len(text) - t)
        got_b == Min(b, Len(vosk) - v)
    IN  IF b = 0
        THEN [true_transcription |-> t + got_a, timings |-> v,
              raised |-> FALSE, yielded |-> <<>>]
        ELSE [true_transcription |-> t + got_a,
              timings |-> v + got_b,
              raised |-> got_b = 0,
              yielded |-> IF got_b = 0 THEN <<>>
                          ELSE <<WordTiming(SubSeq(text, t + 1, t + got_a),
                                            vosk[v + 1].start, vosk[v + got_b].end)>>]

\* _reconcile_matching for k tokens: zip draws a token, then a word, then a timing,
\* and stops at the first iterator that has no more: a word drawn before the timings
\* ran out is lost
_reconcile_matching(text, vosk, t, v, k) ==
    LET n == Min(k, Min(Len(text) - t, Len(vosk) - v))
        lost == IF n < k /\ Len(text) - t > n THEN 1 ELSE 0
    IN  [true_transcription |-> t + n + lost,
         timings |-> v + n,
         yielded |-> [j \in 1..n |-> WordTiming(<<text[t + j]>>, vosk[v + j].start, vosk[v + j].end)]]

InitRec ==
    /\ transcription = <<>>
    /\ NewGenerator
    /\ NoSegments
    /\ NoFile
    /\ NoFragment
    /\ NoModels
    /\ whisper_result \in WhisperResults
    /\ vosk_result \in VoskResults
    /\ mode \in Modes
    /\ pc = "idle"
    /\ rows_left = 0
    /\ row = NoRow
    /\ group = 0
    /\ true_transcription = 0
    /\ timings = 0
    /\ words = <<>>
    /\ _result = NoResult

assistantvars == <<rows_left, row, group, true_transcription, timings, words>>

\* reconcile(whisper_result, vosk_result, mode=mode) up to its return or, on the
\* assisted path, up to the assistant's window waiting for the user; the window
\* has one row for each block of diff_block_str
Reconcile ==
    /\ pc = "idle"
    /\ LET path == Path(whisper_result, vosk_result, mode)
       IN  \/ /\ path = "equal"
              /\ whisper_result' = _reconcile_equal_simple(whisper_result, vosk_result)
              /\ _result' = WhisperResult(whisper_result')
              /\ pc' = "done"
              /\ UNCHANGED assistantvars
           \/ /\ path = "simple"
              /\ IF Len(vosk_result) = 0
                 THEN pc' = "error" /\ UNCHANGED <<whisper_result, _result>>
                 ELSE /\ whisper_result' = _reconcile_unequal_simple(whisper_result, vosk_result)
                      /\ _result' = WhisperResult(whisper_result')
                      /\ pc' = "done"
              /\ UNCHANGED assistantvars
           \/ /\ path = "assisted"
              /\ pc' = "assistant"
              /\ rows_left' \in RowCounts
              /\ UNCHANGED <<whisper_result, _result, row, group, true_transcription, timings, words>>
    /\ UNCHANGED <<vosk_result, mode, transcription, genvars, segvars, trvars>>

\* HoshiAssistant.update, entered: reconcile() makes its two iterators
Update ==
    /\ pc = "assistant"
    /\ pc' = "rows"
    /\ true_transcription' = 0
    /\ timings' = 0
    /\ words' = <<>>
    /\ UNCHANGED <<whisper_result, vosk_result, mode, rows_left, row, group, _result,
                   transcription, genvars, segvars, trvars>>

\* _iter_rows yields the texts of the next row, as the user left them
IterRows ==
    /\ pc = "rows"
    /\ rows_left > 0
    /\ \E w \in PhraseChoices, v \in PhraseChoices, m \in MatchingChoices :
           row' = [whisper |-> w, vosk |-> v, matching |-> m]
    /\ rows_left' = rows_left - 1
    /\ group' = 1
    /\ pc' = "one"
    /\ UNCHANGED <<whisper_result, vosk_result, mode, true_transcription, timings, words,
                   _result, transcription, genvars, segvars, trvars>>

\* one pass of the loop of _reconcile_one, over the next pair of sub-groups
ReconcileOne ==
    /\ pc = "one"
    /\ group <= NumGroups(row)
    /\ LET r == _reconcile_one(whisper_result.text, vosk_result, true_transcription, timings,
                                n_whisper(row, group), n_vosk(row, group))
       IN  /\ true_transcription' = r.true_transcription
           /\ timings' = r.timings
           /\ words' = words \o r.yielded
           /\ pc' = IF r.raised THEN "error" ELSE "one"
    /\ group' = group + 1
    /\ UNCHANGED <<whisper_result, vosk_result, mode, rows_left, row, _result,
                   transcription, genvars, segvars, trvars>>

\* _reconcile_matching over the row's matching text, after the row's sub-groups;
\* the row is done with
ReconcileMatching ==
    /\ pc = "one"
    /\ group > NumGroups(row)
    /\ LET r == _reconcile_matching(whisper_result.text, vosk_result, true_transcription,
                                     timings, Len(row.matching))
       IN  /\ true_transcription' = r.true_transcription
           /\ timings' = r.timings
           /\ words' = words \o r.yielded
    /\ pc' = "rows"
    /\ row' = NoRow
    /\ group' = 0
    /\ UNCHANGED <<whisper_result, vosk_result, mode, rows_left, _result,
                   transcription, genvars, segvars, trvars>>

\* HoshiAssistant.update after list(self.reconcile()): the one segment is stored and
\* the result made; min() of no words raises ValueError
StoreResult ==
    /\ pc = "rows"
    /\ rows_left = 0
    /\ IF Len(words) = 0
       THEN pc' = "error" /\ UNCHANGED <<whisper_result, _result>>
       ELSE /\ whisper_result' =
                  [whisper_result EXCEPT !.segments =
                      << [start |-> MinStart(words), end |-> MaxEnd(words),
                          words |-> words, text |-> whisper_result.text] >>]
            /\ _result' = WhisperResult(whisper_result')
            /\ pc' = "done"
    /\ UNCHANGED <<vosk_result, mode, assistantvars, transcription, genvars, segvars, trvars>>

\* the user closes the assistant's window without Update: the reconciliation is
\* abandoned and nothing is made
Cancel ==
    /\ pc = "assistant"
    /\ pc' = "cancelled"
    /\ UNCHANGED <<whisper_result, vosk_result, mode, assistantvars, _result,
                   transcription, genvars, segvars, trvars>>

NextRec ==
    \/ Reconcile
    \/ Update
    \/ Cancel
    \/ IterRows
    \/ ReconcileOne
    \/ ReconcileMatching
    \/ StoreResult

SpecRec == InitRec /\ [][NextRec]_vars

-----------------------------------------------------------------------------
(* Claims about the reconciler *)

\* the words of the result, segment after segment
ResultWords == Concat(_result.segments)

\* C2: on the equal-length fast path (as many text words as timed words, mode not
\* always-assisted) reconcile returns a transcript whose i-th word has whisper's
\* i-th word as its text and vosk's i-th start and end as its timing, for every i.
C2_EqualLengthPairsTextWithTiming ==
    (pc = "done" /\ Path(whisper_result, vosk_result, mode) = "equal") =>
        ResultWords = [i \in 1..Len(vosk_result) |->
                          WordTiming(<<whisper_result.text[i]>>,
                                     vosk_result[i].start, vosk_result[i].end)]

\* the next step is a pass of _reconcile_one over sub-groups declaring a words and
\* b timings
AtSubGroup(a, b) ==
    /\ pc = "one"
    /\ group <= NumGroups(row)
    /\ n_whisper(row, group) = a
    /\ n_vosk(row, group) = b

\* C9: for each pair of parallel sub-groups with declared counts a words and
\* b >= 1 timings, exactly a words are consumed from the text stream and joined as
\* the output text, exactly b timings are consumed from the timing stream, and the
\* output word starts at the first consumed timing's start and ends at the last
\* consumed timing's end.  (A pass that raises an error yields no word and is left
\* aside here.)
C9_SubGroupConsumesDeclaredCounts ==
    [][ \A a \in 0..3, b \in 1..3 :
          (AtSubGroup(a, b) /\ pc' # "error") =>
              /\ true_transcription' = true_transcription + a
              /\ timings' = timings + b
              /\ words' = Append(words,
                                 WordTiming(SubSeq(whisper_result.text, true_transcription + 1,
                                                   true_transcription + a),
                                            vosk_result[timings + 1].start,
                                            vosk_result[timings + b].end)) ]_vars

\* C10: a sub-group whose declared timing count is zero contributes no output word,
\* consumes no timing and raises no error, and reconciliation goes on with the
\* sub-groups and rows that follow.
C10_ZeroTimingSubGroupIsSkipped ==
    [][ \A a \in 0..3 :
          AtSubGroup(a, 0) =>
              /\ words' = words
              /\ timings' = timings
              /\ pc' = "one"
              /\ group' = group + 1 ]_vars

\* C10 is witnessed by a row whose first sub-groups declare one word and no timing:
\* the word was consumed, no timing was, and the sub-group after it has yielded the
\* first output word, from the second word and the first timing.
C10_Witness ==
    /\ pc = "one"
    /\ group = 3
    /\ n_whisper(row, 1) = 1
    /\ n_vosk(row, 1) = 0
    /\ true_transcription = 2
    /\ timings = 1
    /\ words = <<WordTiming(<<whisper_result.text[2]>>, vosk_result[1].start, vosk_result[1].end)>>

\* C11: under 'assisted' the assistant is invoked exactly when the word counts of
\* the text and of the timed words differ; under 'always-assisted' it is invoked on
\* every call, also on equal counts; under 'simple' it is never invoked.
C11_PolicyDispatch ==
    [][ pc = "idle" =>
          ( pc' = "assistant" <=>
              \/ mode = "always-assisted"
              \/ mode = "assisted" /\ Len(whisper_result.text) # Len(vosk_result) ) ]_vars

\* C11 is witnessed by the assistant opened on equal, positive counts.
C11_Witness ==
    /\ pc = "assistant"
    /\ mode = "always-assisted"
    /\ Len(whisper_result.text) = Len(vosk_result)
    /\ Len(vosk_result) > 0

\* the words stored in the segments of whisper_result
StoredWords == Concat(whisper_result.segments)

\* C12: assisted reconciliation is all-or-nothing: when the assistant is cancelled or
\* the regrouping fails part-way (the timings run out inside a sub-group), no
\* transcript is emitted and no partly built word list is stored; a transcript is
\* emitted only when every row has been reconciled.
C12_AssistedAllOrNothing ==
    [][ Path(whisper_result, vosk_result, mode) = "assisted" =>
          /\ (pc = "one" /\ group <= NumGroups(row)
                 /\ n_vosk(row, group) > Len(vosk_result) - timings) => pc' = "error"
          /\ pc' \in {"cancelled", "error"} => (_result' = NoResult /\ StoredWords' = <<>>)
          /\ _result' # _result => (pc = "rows" /\ rows_left = 0) ]_vars

\* the next step is _reconcile_matching over the row's matching run
AtMatchingRun == pc = "one" /\ group > NumGroups(row)

\* C22: a matching run of k tokens yields exactly k output words, the j-th with
\* the next word of the text stream as its text and the next timing of the
\* timing stream as its start and end: k words and k timings are consumed.
C22_MatchingRunPairsOneToOne ==
    [][ AtMatchingRun =>
          LET k == Len(row.matching)
          IN  /\ true_transcription' = true_transcription + k
              /\ timings' = timings + k
              /\ Len(words') = Len(words) + k
              /\ \A j \in 1..k :
                    words'[Len(words) + j]
                      = WordTiming(<<whisper_result.text[true_transcription + j]>>,
                                   vosk_result[timings + j].start,
                                   vosk_result[timings + j].end) ]_vars

\* C26: on the equal-length fast path with whisper's text split over several
\* segments, every timing of vosk goes to exactly one segment, in order and with
\* none skipped at a segment boundary: a segment receives as many timings as it
\* has words, and the result has as many words as vosk has timings.
C26_FastPathSpreadsTimingsOverSegments ==
    (pc = "done" /\ Path(whisper_result, vosk_result, mode) = "equal") =>
        /\ \A k \in 1..Len(_result.segments) :
               Len(_result.segments[k].words) = Len(_result.segments[k].text)
        /\ Len(ResultWords) = Len(vosk_result)
        /\ \A i \in 1..Len(ResultWords) :
               /\ ResultWords[i].start = vosk_result[i].start
               /\ ResultWords[i].end = vosk_result[i].end

\* C20: reconcile does not change what it was given: from the call to its
\* return, under any mode, the whisper result (its text and its segments) and
\* the vosk result (the timed words) stay equal to what was passed in.
C20_ReconcileKeepsItsInputs ==
    [][ whisper_result' = whisper_result /\ vosk_result' = vosk_result ]_vars

-----------------------------------------------------------------------------
(* stlr/transcribe.py: Transcription._export_json, from_dict and from_json *)

\* the texts of the words exported: plain, with a leading space, with a quote in it
JsonTexts == {"a", " a", "q\""}

JsonTimes == {0, 126, 1400}

JsonWords == {WordTiming(w, s, e) : w \in JsonTexts, s \in JsonTimes, e \in JsonTimes}

\* str.strip() of a word
Strip(word) == IF word = " a" THEN "a" ELSE word

\* json.dumps of a str: the text between the quotes, a quote in it escaped
JsonString(word) == IF word = "q\"" THEN "q\\\"" ELSE word

\* json.loads of the text between the quotes
ParseJsonString(text) == IF text = "q\\\"" THEN "q\"" ELSE text

\* a float written with two decimals
JsonNumberTwoDecimals(ms) ==
    [int |-> Fmt2(ms) \div 1000,
     frac |-> << (Fmt2(ms) % 1000) \div 100, ((Fmt2(ms) % 1000) \div 10) % 10 >>]

\* json.dumps of a float holding ms milliseconds: float.__repr__, the integer
\* part and the shortest decimals that read back as the same float
JsonNumber(ms) ==
    [int |-> ms \div 1000,
     frac |-> SubSeq(<< (ms % 1000) \div 100, ((ms % 1000) \div 10) % 10, ms % 10 >>,
                     1, ReprDecimals(ms))]

\* json.loads of a number, in ms
ParseJsonNumber(n) ==
    LET d(i) == IF i <= Len(n.frac) THEN n.frac[i] ELSE 0
    IN  1000 * n.int + 100 * d(1) + 10 * d(2) + d(3)

\* attrs.asdict(word), dumped; the model's words all have the default confidence
asdict(word) ==
    [word |-> JsonString(word.word), start |-> JsonNumber(word.start),
     end |-> JsonNumber(word.end), confidence |-> JsonNumber(0)]

\* the data _export_json writes: str(self), word by word, and the words
_export_json(T) ==
    [text |-> [i \in 1..Len(T) |-> JsonString(Strip(T[i].word))],
     words |-> [i \in 1..Len(T) |-> asdict(T[i])]]

\* Transcription.from_dict on the loaded data: WordTiming(**t) for t in data["words"]
from_dict(data) ==
    [i \in 1..Len(data.words) |->
        WordTiming(ParseJsonString(data.words[i].word),
                   ParseJsonNumber(data.words[i].start),
                   ParseJsonNumber(data.words[i].end))]

from_json(data) == from_dict(data)

InitJson ==
    /\ transcription \in TranscriptionsOver(JsonWords, MaxWords)
    /\ NewGenerator
    /\ NoSegments
    /\ NoFile
    /\ NoFragment
    /\ NoModels
    /\ NoReconcile

\* format(x, ".6f") of a time of ms milliseconds, in microseconds
Fmt6(ms) == 1000 * ms

\* a field as csv.writer writes it with the excel-tab dialect: a field with a
\* quote in it is quoted and its quotes doubled
CsvField(word) == IF word = "q\"" THEN "\"q\"\"\"" ELSE word

\* the rows _export_audacity_cue writes: start, end, comment
_export_audacity_cue(T) ==
    [i \in 1..Len(T) |-> <<Fmt6(T[i].start), Fmt6(T[i].end), CsvField(T[i].word)>>]

\* stlr.utils.seconds_to_hms of a time of ms milliseconds
seconds_to_hms(ms) ==
    [h |-> ms \div 3600000, m |-> (ms \div 60000) % 60, s |-> (ms \div 1000) % 60, ms |-> ms % 1000]

\* the rows _export_audition_cue writes: the header, then a marker for each word
_export_audition_cue(T) ==
    << <<"Name", "Start", "Duration", "Time Format", "Type", "Description">> >>
    \o [i \in 1..Len(T) |->
          <<i, seconds_to_hms(T[i].start), seconds_to_hms(WordDuration(T[i])),
            "decimal", "Cue", CsvField(T[i].word)>>]

ExportModes == {"json", "audacity", "audition"}

\* what export(filestem, mode=m) writes to the file
Exported(T, m) ==
    CASE m = "json" -> _export_json(T)
      [] m = "audacity" -> _export_audacity_cue(T)
      [] m = "audition" -> _export_audition_cue(T)

\* what the file holds when the write stops after k words or rows: the file was
\* opened for writing, which empties it, and only a part of the data reached it
Truncated(data, m, k) ==
    IF m = "json" THEN [data EXCEPT !.words = SubSeq(@, 1, k)] ELSE SubSeq(data, 1, k)

\* the number of words or rows of the data
Rows(data, m) == IF m = "json" THEN Len(data.words) ELSE Len(data)

\* transcription.export(filestem, mode=m), the write succeeding
Export(m) ==
    /\ file' = [mode |-> m, data |-> Exported(transcription, m), whole |-> TRUE, raised |-> "none"]
    /\ UNCHANGED <<transcription, genvars, segvars, recvars, loaded, fragment, cachevars>>

\* transcription.export(filestem, mode=m), open() raising: the file is not touched
ExportFailsToOpen(m) ==
    /\ file' = [file EXCEPT !.raised = "OSError"]
    /\ UNCHANGED <<transcription, genvars, segvars, recvars, loaded, fragment, cachevars>>

\* transcription.export(filestem, mode=m), the write raising after k words or rows
ExportFailsToWrite(m, k) ==
    /\ k <= Rows(Exported(transcription, m), m)
    /\ file' = [mode |-> m, data |-> Truncated(Exported(transcription, m), m, k),
                whole |-> FALSE, raised |-> "OSError"]
    /\ UNCHANGED <<transcription, genvars, segvars, recvars, loaded, fragment, cachevars>>

\* Transcription.from_json(filepath) on the file exported
FromJson ==
    /\ file.mode = "json"
    /\ file.whole
    /\ loaded' = [made |-> TRUE, word_timings |-> from_json(file.data)]
    /\ UNCHANGED <<transcription, genvars, segvars, recvars, file, fragment, cachevars>>

NextJson ==
    \/ \E m \in ExportModes : Export(m)
    \/ \E m \in ExportModes : ExportFailsToOpen(m)
    \/ \E m \in ExportModes, k \in 0..MaxWords : ExportFailsToWrite(m, k)
    \/ FromJson

SpecJson == InitJson /\ [][NextJson]_vars

\* C18: exporting a transcription to the structured format and importing the file
\* gives a transcription with the same number of words and, position by position,
\* the same text, start and end.
C18_JsonRoundTrip ==
    loaded.made =>
        /\ Len(loaded.word_timings) = Len(transcription)
        /\ \A i \in 1..Len(transcription) :
               /\ loaded.word_timings[i].word = transcription[i].word
               /\ loaded.word_timings[i].start = transcription[i].start
               /\ loaded.word_timings[i].end = transcription[i].end

\* a transcription of two words loaded back, one with a quote in its text and a
\* time of three decimals, one with a leading space and a time above a second
C18_Witness ==
    /\ loaded.made
    /\ Len(transcription) = 2
    /\ transcription[1].word = "q\"" /\ transcription[1].end = 126
    /\ transcription[2].word = " a" /\ transcription[2].end = 1400
    /\ file.data.words[1].word # transcription[1].word
    /\ loaded.word_timings = transcription

-----------------------------------------------------------------------------
(* stlr/transcribe.py: Transcription.get_fragment *)

MaxTokens == 2

FragTexts == {"a", " a", "b"}

FragTimes == {0, 400}

FragWords == {WordTiming(w, s, s + 200) : w \in FragTexts, s \in FragTimes}

\* the tokens fragment.split() can give
FragTokens == {"a", "b", "x"}

Fragments == UNION { [1..k -> FragTokens] : k \in 0..MaxTokens }

\* Transcription.words: the words' texts, stripped
Words(T) == [i \in 1..Len(T) |-> Strip(T[i].word)]

\* the blocks a[i .. i+k-1] = b[j .. j+k-1] of one token at least, with
\* alo <= i, i + k <= ahi, blo <= j and j + k <= bhi
CommonBlocks(a, b, alo, ahi, blo, bhi) ==
    {m \in (alo..(ahi - 1)) \X (blo..(bhi - 1)) \X (1..(ahi - alo)) :
        /\ m[1] + m[3] <= ahi
        /\ m[2] + m[3] <= bhi
        /\ \A d \in 0..(m[3] - 1) : a[m[1] + d] = b[m[2] + d]}

\* the longest common block, the earliest in a and then in b among the longest
LongestBlock(a, b, alo, ahi, blo, bhi) ==
    CHOOSE m \in CommonBlocks(a, b, alo, ahi, blo, bhi) :
        \A o \in CommonBlocks(a, b, alo, ahi, blo, bhi) :
            \/ o[3] < m[3]
            \/ o[3] = m[3] /\ m[1] < o[1]
            \/ o[3] = m[3] /\ m[1] = o[1] /\ m[2] <= o[2]

RECURSIVE FirstBlock(_, _, _, _, _, _)
\* the first of the matching blocks of the alignment of a and b: the longest
\* common block, unless the tokens to its left in both have one of their own
FirstBlock(a, b, alo, ahi, blo, bhi) ==
    IF CommonBlocks(a, b, alo, ahi, blo, bhi) = {} THEN <<ahi, bhi, 0>>
    ELSE LET m == LongestBlock(a, b, alo, ahi, blo, bhi)
             left == FirstBlock(a, b, alo, m[1], blo, m[2])
         IN  IF left[3] > 0 THEN left ELSE m

\* the first triple diff_blocks(a, b) yields: the tokens only a has and the tokens
\* only b has before the first matching block, and that block
FirstDiffBlock(a, b) ==
    LET m == FirstBlock(a, b, 1, Len(a) + 1, 1, Len(b) + 1)
    IN  << SubSeq(a, 1, m[1] - 1), SubSeq(b, 1, m[2] - 1), SubSeq(a, m[1], m[1] + m[3] - 1) >>

\* whether diff_blocks(a, b) yields a triple at all: it does when a and b share
\* a token; when they share none it yields the one non-matching block or nothing
DiffBlocksYields(a, b) ==
    IF FirstBlock(a, b, 1, Len(a) + 1, 1, Len(b) + 1)[3] > 0 THEN {TRUE} ELSE {TRUE, FALSE}

\* get_fragment once next(g) returned the triple
get_fragment(T, tokens) ==
    LET triple == FirstDiffBlock(Words(T), tokens)
        i == Len(triple[1])
        n == Len(triple[3])
    IN  Segment(SubSeq(T, i + 1, i + n), 0)

InitFrag ==
    /\ transcription \in TranscriptionsOver(FragWords, MaxWords)
    /\ NewGenerator
    /\ NoSegments
    /\ NoFile
    /\ NoFragment
    /\ NoModels
    /\ NoReconcile

\* transcription.get_fragment(text), tokens being text.split()
GetFragment(tokens) ==
    /\ \E yields \in DiffBlocksYields(Words(transcription), tokens) :
          fragment' = IF yields
                      THEN [made |-> TRUE, tokens |-> tokens,
                            segment |-> get_fragment(transcription, tokens), raised |-> "none"]
                      ELSE [made |-> TRUE, tokens |-> tokens,
                            segment |-> <<>>, raised |-> "StopIteration"]
    /\ UNCHANGED <<transcription, genvars, segvars, recvars, file, loaded, cachevars>>

NextFrag == \E tokens \in Fragments : GetFragment(tokens)

SpecFrag == InitFrag /\ [][NextFrag]_vars

\* the tokens are the texts of a contiguous block of the transcription's words
ContiguousMatch(T, tokens) ==
    \E i \in 1..(Len(T) + 1) :
        /\ i + Len(tokens) - 1 <= Len(T)
        /\ SubSeq(Words(T), i, i + Len(tokens) - 1) = tokens

\* C19: get_fragment(text) fails whenever no contiguous block of the
\* transcription's words matches the tokens of text; it returns no segment,
\* empty or other, in that case.
C19_NoMatchRaises ==
    (fragment.made /\ ~ContiguousMatch(transcription, fragment.tokens)) =>
        fragment.raised # "none"

-----------------------------------------------------------------------------
(* Claims about the files export writes *)

\* C21: an export whose write fails leaves in the destination file either the
\* complete exported content or what the file held before, never a part of it.
C21_ExportIsAtomic ==
    [][ file'.raised # "none" =>
          \/ file'.mode = file.mode /\ file'.data = file.data /\ file'.whole = file.whole
          \/ file'.whole /\ file'.data = Exported(transcription, file'.mode) ]_vars

-----------------------------------------------------------------------------
(* stlr/transcribe.py: ModelCache *)

\* the keys of lookup
Libraries == {"openai-whisper", "whisper-timestamped", "stable-whisper"}

ModelNames == {"base", "tiny"}

Devices == {"cpu", "cuda"}

\* lookup[library](model_name, device): the model constructed
LoadModel(library, model_name, device) ==
    [library |-> library, model_name |-> model_name, device |-> device]

InitCache ==
    /\ transcription = <<>>
    /\ NewGenerator
    /\ NoSegments
    /\ NoFile
    /\ NoFragment
    /\ NoModels
    /\ NoReconcile

\* MODEL_CACHE.get(library, model_name, device)
Get(library, model_name, device) ==
    /\ IF library \notin Libraries
       THEN /\ got' = [made |-> TRUE, library |-> library, model_name |-> model_name,
                       device |-> device, raised |-> "ValueError", model |-> <<>>]
            /\ models' = models
       ELSE LET key == <<library, model_name>>
            IN  /\ models' = IF key \in DOMAIN models THEN models
                             ELSE (key :> LoadModel(library, model_name, device)) @@ models
                /\ got' = [made |-> TRUE, library |-> library, model_name |-> model_name,
                           device |-> device, raised |-> "none", model |-> models'[key]]
    /\ UNCHANGED <<transcription, genvars, segvars, recvars, file, loaded, fragment>>

NextCache ==
    \E library \in Libraries \cup {"whisper"}, model_name \in ModelNames, device \in Devices :
        Get(library, model_name, device)

SpecCache == InitCache /\ [][NextCache]_vars

\* C30: the model that get(library, model_name, device) returns was constructed
\* for exactly that library, model name and device, whatever calls came before.
C30_CacheReturnsTheModelAskedFor ==
    (got.made /\ got.raised = "none") =>
        got.model = LoadModel(got.library, got.model_name, got.device)

====
